---------------------------- MODULE Spec2Model ----------------------------
(***************************************************************************)
(* hbuild: the incremental native build engine of src/main.rs.             *)
(*                                                                         *)
(* The module holds several specifications over one set of variables:      *)
(*   SpecStale  the staleness check needs_recompile as a pure function of  *)
(*              the dependency graph and the file timestamps               *)
(*   SpecBuild  successive runs of the native pipeline compile_c_cpp over  *)
(*              one project directory, with the files touched in between   *)
(*   SpecProc   one run of the native pipeline with its threads: the main  *)
(*              thread, the workers of the pool, the interrupt handler,    *)
(*              and the child processes they spawn, wait for and kill      *)
(*   SpecMake   make: the fetched dependencies, then the declared          *)
(*              languages one after the other                              *)
(***************************************************************************)
EXTENDS Integers, Sequences, FiniteSets, TLC

(***************************************************************************)
(* The files of a project.                                                 *)
(***************************************************************************)
Sources == {"a.c", "b.c"}
Headers == {"x.h", "y.h"}
Files == Sources \cup Headers

\* Bounds of the model.
MaxTime == 1        \* modification times are 0..MaxTime
MaxStack == 5       \* call frames the stack holds before it overflows
MaxClock == 1       \* SpecBuild: the times files are touched at are 1..MaxClock
MaxLangs == 3       \* SpecMake: the declared languages are at most MaxLangs

\* SystemTime::UNIX_EPOCH, the object time used when the object is missing.
UNIX_EPOCH == 0
\* The outcome of a failed stat (file.metadata() is Err, obj.exists() is false).
Missing == -1

Times == 0..MaxTime
Stamps == Times \cup {Missing}

VARIABLES
    deps,       \* HashMap<PathBuf, HashSet<PathBuf>>: the dependency graph
    mtime,      \* the filesystem: modification time of each source and header
    objs,       \* the filesystem: modification time of each object file
    ord,        \* the iteration order of the HashSets (arbitrary, fixed per run)
    patterns,   \* build.sources: the glob patterns of the configuration
    query,      \* SpecStale: the source the staleness check is asked about
    nr,         \* SpecStale: the outcome of the call, or NoCall
    clock,      \* SpecBuild: the time files are written at
    target,     \* the filesystem: modification time of the target artifact
    build_type, \* build.build_type
    listing,    \* what the compiler's dependency listing reports for each file
    pc,         \* the statement of compile_c_cpp the run is at, "idle" between runs
    to_compile, \* compile_c_cpp: the files in to_compile
    pending,    \* the entries of to_compile whose task has not been started,
                \* each the index in sources it was pushed for
    failed,     \* a compile task of this run returned Err
    cmds,       \* the commands the run has spawned so far
    result,     \* what the last run returned: "ok", one of NativeErrors,
                \* "crash" when the process aborted, or "none"
    target0,    \* the target's modification time when the run began
    base,       \* a run has succeeded and no object or target was written since
    touched,    \* the files touched since that run
    begun,      \* base and touched as they were when the run began
    proc,       \* SpecProc: the state of each child process
    children,   \* the process registry, Arc<Mutex<Vec<u32>>>
    lock,       \* the thread that holds the registry's mutex, or "free"
    wpc,        \* the statement of the compile task each worker is at
    wtask,      \* the source each worker compiles
    hpc,        \* the statement of the interrupt handler
    hsnap,      \* the identifiers the handler's loop has still to kill
    prog,       \* the program: "running", "exit0", "exit1" or "abort"
    qi,         \* the index of the dependency query the main thread is at
    languages,  \* SpecMake: config.specs.languages
    has_requirements,   \* requirements.txt exists in the project
    dep_native, \* a fetched dependency has a config that declares c or c++
    mpc,        \* the statement of make: "deps", "loop" or "done"
    li,         \* the index of the language the loop of make is at
    outcome,    \* what each declared language ended in, "pending" before
    spawns,     \* the indices of the languages a process was spawned for
    pool_built, \* the global worker pool of the process has been built
    make_result,\* what make returned: "Ok", "Err", or "none"
    make_error  \* the error make returned, and where it arose; NoError before

fsVars == <<deps, mtime, objs, ord, patterns>>
staleVars == <<query, nr>>
buildVars == <<clock, target, build_type, listing, pc, to_compile, pending,
               failed, cmds, result, target0, base, touched, begun>>
procVars == <<proc, children, lock, wpc, wtask, hpc, hsnap, prog, qi>>
makeVars == <<languages, has_requirements, dep_native, mpc, li, outcome, spawns,
              pool_built, make_result, make_error>>
vars == <<fsVars, staleVars, buildVars, procVars, makeVars>>

(***************************************************************************)
(* Helpers over sets and sequences.                                        *)
(***************************************************************************)
Perms(S) == {p \in [1..Cardinality(S) -> S] : \A a \in S : \E i \in DOMAIN p : p[i] = a}

Pos(p, a) == CHOOSE i \in DOMAIN p : p[i] = a

\* The element of S the iteration yields first.
FirstOf(S, p) == CHOOSE a \in S : \A b \in S : Pos(p, a) <= Pos(p, b)

\* build_dir.join(src.file_name()).with_extension("o")
obj_path(src) ==
    CASE src = "a.c" -> "a.o"
      [] src = "b.c" -> "b.o"
      [] src = "sub/a.c" -> "a.o"

Objects == {obj_path(s) : s \in Sources}

\* HashMap::insert(file, value)
HashMapInsert(cache, file, value) ==
    [f \in (DOMAIN cache) \cup {file} |-> IF f = file THEN value ELSE cache[f]]

EmptyCache == [f \in {} |-> FALSE]

\* The members of a graph entry; a file without an entry has none.
Edges(g, f) == IF f \in DOMAIN g THEN g[f] ELSE {}

RECURSIVE ReachFrom(_, _, _)
ReachFrom(g, seen, n) ==
    IF n = 0 THEN seen
    ELSE ReachFrom(g, seen \cup UNION {Edges(g, f) : f \in seen}, n - 1)

\* The files reached from f, f included.
Reach(g, f) == ReachFrom(g, {f}, Cardinality(Files))

(***************************************************************************)
(* needs_recompile (main.rs 325-358).  The result is a record: res is the  *)
(* returned boolean, cache the cache as the call leaves it, ovf is TRUE    *)
(* when the recursion ran past the stack (the process aborts; res is then  *)
(* meaningless).  depth counts the frames in use.                          *)
(***************************************************************************)
RECURSIVE needs_recompile(_, _, _, _, _, _)
RECURSIVE visit_deps(_, _, _, _, _, _)

\* needs_recompile without the test that the object exists.
needs_recompile_no_exists(file, obj, g, cache, obj_mtime, depth) ==
    IF depth > MaxStack
    THEN [res |-> FALSE, cache |-> cache, ovf |-> TRUE]
    ELSE IF file \in DOMAIN cache
    THEN [res |-> cache[file], cache |-> cache, ovf |-> FALSE]
    ELSE IF mtime[file] = Missing
    THEN [res |-> TRUE, cache |-> cache, ovf |-> FALSE]
    ELSE IF mtime[file] > obj_mtime
    THEN [res |-> TRUE, cache |-> HashMapInsert(cache, file, TRUE), ovf |-> FALSE]
    ELSE LET d == IF file \in DOMAIN g THEN g[file] ELSE {}
             r == visit_deps(d, obj, g, cache, obj_mtime, depth)
         IN  IF r.ovf THEN r
             ELSE [res |-> r.res,
                   cache |-> HashMapInsert(r.cache, file, r.res),
                   ovf |-> FALSE]

needs_recompile(file, obj, g, cache, obj_mtime, depth) ==
    IF depth > MaxStack
    THEN [res |-> FALSE, cache |-> cache, ovf |-> TRUE]
    ELSE IF file \in DOMAIN cache
    THEN [res |-> cache[file], cache |-> cache, ovf |-> FALSE]
    ELSE IF mtime[file] = Missing
    THEN [res |-> TRUE, cache |-> cache, ovf |-> FALSE]
    ELSE IF objs[obj] = Missing \/ mtime[file] > obj_mtime
    THEN [res |-> TRUE, cache |-> HashMapInsert(cache, file, TRUE), ovf |-> FALSE]
    ELSE LET d == IF file \in DOMAIN g THEN g[file] ELSE {}
             r == visit_deps(d, obj, g, cache, obj_mtime, depth)
         IN  IF r.ovf THEN r
             ELSE [res |-> r.res,
                   cache |-> HashMapInsert(r.cache, file, r.res),
                   ovf |-> FALSE]

\* The loop leaving after its first dependency, whatever that one returned.
visit_deps_first_only(d, obj, g, cache, obj_mtime, depth) ==
    IF d = {}
    THEN [res |-> FALSE, cache |-> cache, ovf |-> FALSE]
    ELSE needs_recompile(FirstOf(d, ord), obj, g, cache, obj_mtime, depth + 1)

\* The loop "for dep in d" of needs_recompile (main.rs 349-354).
visit_deps(d, obj, g, cache, obj_mtime, depth) ==
    IF d = {}
    THEN [res |-> FALSE, cache |-> cache, ovf |-> FALSE]
    ELSE LET dep == FirstOf(d, ord)
             r == needs_recompile(dep, obj, g, cache, obj_mtime, depth + 1)
         IN  IF r.ovf \/ r.res THEN r
             ELSE visit_deps(d \ {dep}, obj, g, r.cache, obj_mtime, depth)

\* The caller's part (main.rs 458-465): the object's time, a fresh cache.
StaleCheck(src) ==
    LET obj == obj_path(src)
        obj_mtime == IF objs[obj] # Missing THEN objs[obj] ELSE UNIX_EPOCH
    IN  needs_recompile(src, obj, deps, EmptyCache, obj_mtime, 1)

(***************************************************************************)
(* SpecStale: the staleness check applied to every input of the bounded    *)
(* sets.                                                                   *)
(***************************************************************************)
\* The graphs the check is run on: what a source includes (itself, as the
\* dependency listing names it, and headers) and what each header includes.
StaleGraphs(s) ==
    {g \in [{s} \cup Headers -> SUBSET ({s} \cup Headers)] :
        \A h \in Headers : g[h] \subseteq Headers}

NoCall == [src |-> "none", res |-> FALSE, ovf |-> FALSE]

\* The threads of the worker pool (num_cpus::get() of them, main.rs 426-427).
Workers == {"w1", "w2"}

\* The child processes a run can spawn, named by what they run.
ScanProc(f) == [kind |-> "scan", file |-> f]
CompileProc(src) == [kind |-> "compile", file |-> src]
LinkProc == [kind |-> "link", file |-> "target"]
ArProc == [kind |-> "archive", file |-> "target"]

Procs ==
    {ScanProc(f) : f \in Files} \cup {CompileProc(src) : src \in Sources}
        \cup {LinkProc, ArProc}

\* The children whose identifier the run puts in the registry.
Tracked == {CompileProc(src) : src \in Sources} \cup {LinkProc}

\* The process of "kill -9 pid" the handler runs for a registered identifier.
KillProc(p) == [kind |-> "kill", file |-> p.file]

KillProcs == {KillProc(p) : p \in Tracked}

\* The variables of SpecProc, at rest.
ProcAtRest ==
    /\ proc = [p \in Procs \cup KillProcs |-> "none"]
    /\ children = {}
    /\ lock = "free"
    /\ wpc = [w \in Workers |-> "idle"]
    /\ wtask = [w \in Workers |-> "none"]
    /\ hpc = "idle"
    /\ hsnap = {}
    /\ prog = "running"
    /\ qi = 1

NoError == [at |-> "none", what |-> "none"]

\* The variables of SpecMake, at rest.
MakeAtRest ==
    /\ languages = <<>>
    /\ has_requirements = FALSE
    /\ dep_native = FALSE
    /\ mpc = "deps"
    /\ li = 1
    /\ outcome = <<>>
    /\ spawns = {}
    /\ pool_built = FALSE
    /\ make_result = "none"
    /\ make_error = NoError

\* The variables of SpecBuild, at rest.
BuildAtRest ==
    /\ clock = 0
    /\ target = Missing
    /\ build_type = "executable"
    /\ listing = [f \in Files |-> {}]
    /\ pc = "idle"
    /\ to_compile = {}
    /\ pending = {}
    /\ failed = FALSE
    /\ cmds = {}
    /\ result = "none"
    /\ target0 = Missing
    /\ base = FALSE
    /\ touched = {}
    /\ begun = [base |-> FALSE, touched |-> {}]

InitStale ==
    /\ BuildAtRest
    /\ ProcAtRest
    /\ MakeAtRest
    /\ query \in Sources
    /\ deps \in StaleGraphs(query)
    /\ mtime \in [Files -> Stamps]
    /\ \A s \in Sources \ {query} : mtime[s] = 0
    /\ objs \in [Objects -> Stamps]
    /\ \A s \in Sources \ {query} : objs[obj_path(s)] = Missing
    /\ ord \in Perms(Files)
    /\ patterns = <<"*.c">>
    /\ \A s \in Sources \ {query} : Pos(ord, s) = Cardinality(Files)
    /\ nr = NoCall

CallNeedsRecompile ==
    /\ nr = NoCall
    /\ LET r == StaleCheck(query)
       IN  nr' = [src |-> query, res |-> r.res, ovf |-> r.ovf]
    /\ UNCHANGED <<deps, mtime, objs, ord, patterns, query, buildVars, procVars, makeVars>>

NextStale == CallNeedsRecompile

SpecStale == InitStale /\ [][NextStale]_vars

(***************************************************************************)
(* SpecBuild: compile_c_cpp (main.rs 381-579) run again and again over one *)
(* project, one action per block of the function; files are touched        *)
(* between the runs.  A compile task is one step: the tasks of the worker  *)
(* pool run in any order.                                                  *)
(***************************************************************************)
BuildTypes == {"executable", "shared", "static"}

\* The paths of the source files a project can have, in the order a glob
\* yields its matches (main.rs 432).
SourcePaths == <<"a.c", "b.c", "sub/a.c">>

\* The patterns a configuration lists, and the paths each one matches; a
\* star does not match across a directory separator.
Patterns == {"*.c", "a.c", "sub/*.c"}

Matches(pattern, f) ==
    CASE pattern = "*.c" -> f \in {"a.c", "b.c"}
      [] pattern = "a.c" -> f = "a.c"
      [] pattern = "sub/*.c" -> f = "sub/a.c"

\* glob(path.join(pattern)): the existing files the pattern matches
\* (main.rs 432).
glob(pattern) ==
    SelectSeq(SourcePaths, LAMBDA f : /\ f \in DOMAIN mtime
                                      /\ mtime[f] # Missing
                                      /\ Matches(pattern, f))

\* The loop over the patterns, pushing every entry (main.rs 431-435).
RECURSIVE scan_sources(_)
scan_sources(i) ==
    IF i > Len(patterns) THEN <<>>
    ELSE glob(patterns[i]) \o scan_sources(i + 1)

\* sources: Vec<PathBuf>, the matched files of the project (main.rs 430-435).
sources == scan_sources(1)

\* dep.extension() is "h" or "hpp" (main.rs 447).
IsHeader(f) == f \in Headers

\* The #include lines of a project: a.c includes x.h; b.c may include y.h;
\* the headers may include each other.
IncludeLines(bIncl, xy, yx) ==
    [f \in Files |->
        CASE f = "a.c" -> {"x.h"}
          [] f = "b.c" -> IF bIncl THEN {"y.h"} ELSE {}
          [] f = "x.h" -> IF xy THEN {"y.h"} ELSE {}
          [] f = "y.h" -> IF yx THEN {"x.h"} ELSE {}]

\* What "compiler -MM file" prints after the colon: every file the
\* preprocessor reads for it, with the file itself when self is TRUE (its
\* path as the compiler prints it is the path the graph keys it by).
ListingOf(inc, self) ==
    [f \in Files |->
        (IF self THEN {f} ELSE {}) \cup UNION {Reach(inc, d) : d \in inc[f]}]

Listings ==
    {ListingOf(IncludeLines(b, xy, yx), self) :
        b \in BOOLEAN, xy \in BOOLEAN, yx \in BOOLEAN, self \in BOOLEAN}

\* get_dependencies (main.rs 360-379) when the query exits with zero: the
\* listed paths that exist.
get_dependencies(file) == {d \in listing[file] : mtime[d] # Missing}

EmptyGraph == [f \in {} |-> {}]

\* The loop "for src in &sources" that builds the graph (main.rs 443-453):
\* g is the graph so far, q the files queried so far, in order.
RECURSIVE graph_loop(_, _, _)
graph_loop(i, g, q) ==
    IF i > Len(sources)
    THEN [g |-> g, q |-> q]
    ELSE LET src == sources[i]
             src_deps == get_dependencies(src)
             fresh == {d \in src_deps : d \notin DOMAIN g /\ IsHeader(d)}
             RECURSIVE InOrder(_)
             InOrder(S) == IF S = {} THEN <<>>
                           ELSE LET d == FirstOf(S, ord)
                                IN  <<d>> \o InOrder(S \ {d})
             g1 == [f \in (DOMAIN g) \cup fresh |->
                        IF f \in DOMAIN g THEN g[f] ELSE get_dependencies(f)]
         IN  graph_loop(i + 1, HashMapInsert(g1, src, src_deps),
                        q \o <<src>> \o InOrder(fresh))

\* The object files of all sources, as the link and archive commands list them
\* (main.rs 530).
all_objs == {obj_path(sources[i]) : i \in 1..Len(sources)}

ScanCmd(f) ==
    [tool |-> "compiler", mode |-> "scan", flags |-> {"-MM"}, file |-> f,
     inputs |-> {f}]

\* compile_flags with -fPIC for every kind that is not an executable.
compile_flags_pic_for_libraries ==
    {"-std", "-O", "cflags", "-I", "-c", "-o"}
        \cup (IF build_type # "executable" THEN {"-fPIC"} ELSE {})

\* compile_flags (main.rs 475-478); cflags stands for the configured string.
compile_flags ==
    {"-std", "-O", "cflags", "-I", "-c", "-o"}
        \cup (IF build_type = "shared" THEN {"-fPIC"} ELSE {})

CompileCmd(src) ==
    [tool |-> "compiler", mode |-> "compile", flags |-> compile_flags, file |-> src,
     inputs |-> {src}]

\* link_cmd (main.rs 547-550); ldflags stands for the configured string.
link_flags ==
    {"-O", "ldflags", "-L", "-l", "-o"}
        \cup (IF build_type = "shared" THEN {"-shared"} ELSE {})

LinkCmd ==
    [tool |-> "compiler", mode |-> "link", flags |-> link_flags, file |-> "target",
     inputs |-> all_objs]

\* ar rcs target objs (main.rs 534-538).
ArCmd ==
    [tool |-> "ar", mode |-> "archive", flags |-> {"rcs"}, file |-> "target",
     inputs |-> all_objs]

\* need_link without the comparison of the objects with the target.
need_link_no_objs == target = Missing \/ to_compile # {}

\* need_link relinking also when an object is exactly as old as the target.
need_link_ge ==
    IF target = Missing \/ to_compile # {}
    THEN TRUE
    ELSE \E i \in 1..Len(sources) :
            /\ objs[obj_path(sources[i])] # Missing
            /\ objs[obj_path(sources[i])] >= target

\* need_link (main.rs 517-527).
need_link ==
    IF target = Missing \/ to_compile # {}
    THEN TRUE
    ELSE \E i \in 1..Len(sources) :
            /\ objs[obj_path(sources[i])] # Missing
            /\ objs[obj_path(sources[i])] > target

InitBuild ==
    /\ ProcAtRest
    /\ MakeAtRest
    /\ query = "none" /\ nr = NoCall
    /\ deps = EmptyGraph
    /\ mtime = [f \in Files |-> 0]
    /\ objs = [o \in Objects |-> Missing]
    /\ ord \in {<<"a.c", "b.c", "x.h", "y.h">>, <<"y.h", "x.h", "b.c", "a.c">>}
    /\ patterns = <<"*.c">>
    /\ clock = 0
    /\ target = Missing
    /\ build_type \in BuildTypes
    /\ listing \in Listings
    /\ pc = "idle"
    /\ to_compile = {}
    /\ pending = {}
    /\ failed = FALSE
    /\ cmds = {}
    /\ result = "none"
    /\ target0 = Missing
    /\ base = FALSE
    /\ touched = {}
    /\ begun = [base |-> FALSE, touched |-> {}]

\* A file is given a newer modification time, between two runs.
Touch(f) ==
    /\ pc = "idle"
    /\ clock < MaxClock
    /\ clock' = clock + 1
    /\ mtime' = [mtime EXCEPT ![f] = clock + 1]
    /\ touched' = IF base THEN touched \cup {f} ELSE {}
    /\ UNCHANGED <<deps, objs, ord, patterns, staleVars, procVars, makeVars, target, build_type, listing, pc,
                   to_compile, pending, failed, cmds, result, target0, base, begun>>

\* compile_c_cpp is entered (main.rs 381-439).
StartBuild ==
    /\ pc = "idle"
    /\ pc' = "graph"
    /\ deps' = EmptyGraph
    /\ to_compile' = {}
    /\ pending' = {}
    /\ failed' = FALSE
    /\ cmds' = {}
    /\ result' = "none"
    /\ target0' = target
    /\ begun' = [base |-> base, touched |-> touched]
    /\ UNCHANGED <<mtime, objs, ord, patterns, staleVars, procVars, makeVars, clock, target, build_type,
                   listing, base, touched>>

\* The dependency graph is built, every query exiting with zero (main.rs 441-453).
BuildGraph ==
    /\ pc = "graph"
    /\ LET r == graph_loop(1, EmptyGraph, <<>>)
       IN  /\ deps' = r.g
           /\ cmds' = cmds \cup {ScanCmd(r.q[i]) : i \in 1..Len(r.q)}
    /\ pc' = "stale"
    /\ UNCHANGED <<mtime, objs, ord, patterns, staleVars, procVars, makeVars, clock, target, build_type,
                   listing, to_compile, pending, failed, result, target0, base,
                   touched, begun>>

\* The k-th dependency query exits non-zero: get_dependencies returns Err
\* and "?" returns it from compile_c_cpp (main.rs 366-368, 444, 448).
BuildGraphFails ==
    /\ pc = "graph"
    /\ LET r == graph_loop(1, EmptyGraph, <<>>)
       IN  \E k \in 1..Len(r.q) :
              cmds' = cmds \cup {ScanCmd(r.q[i]) : i \in 1..k}
    /\ pc' = "idle"
    /\ result' = "scan_err"
    /\ UNCHANGED <<deps, mtime, objs, ord, patterns, staleVars, procVars, makeVars, clock, target, build_type,
                   listing, to_compile, pending, failed, target0, base, touched,
                   begun>>

\* The entry of to_compile a task for src is started from.
TaskOf(src) == CHOOSE i \in pending : sources[i] = src

HasTask(src) == \E i \in pending : sources[i] = src

\* The sources that need recompilation are determined (main.rs 455-468); the
\* process aborts when a call of needs_recompile overflows the stack.
DetermineStale ==
    /\ pc = "stale"
    /\ IF \E i \in 1..Len(sources) : StaleCheck(sources[i]).ovf
       THEN /\ pc' = "idle"
            /\ result' = "crash"
            /\ UNCHANGED <<to_compile, pending>>
       ELSE /\ pending' = {j \in 1..Len(sources) : StaleCheck(sources[j]).res}
            /\ to_compile' = {sources[j] : j \in pending'}
            /\ pc' = "compile"
            /\ UNCHANGED result
    /\ UNCHANGED <<fsVars, staleVars, procVars, makeVars, clock, target, build_type, listing, failed,
                   cmds, target0, base, touched, begun>>

\* One task of the parallel compilation (main.rs 473-505): the compiler is
\* spawned for src and exits with zero (ok) or not.
Compile(src, ok) ==
    /\ pc = "compile"
    /\ HasTask(src)
    /\ pending' = pending \ {TaskOf(src)}
    /\ cmds' = cmds \cup {CompileCmd(src)}
    /\ IF ok
       THEN /\ objs' = [objs EXCEPT ![obj_path(src)] = clock]
            /\ UNCHANGED failed
       ELSE /\ failed' = TRUE
            /\ UNCHANGED objs
    /\ base' = FALSE
    /\ touched' = {}
    /\ UNCHANGED <<deps, mtime, ord, patterns, staleVars, procVars, makeVars, clock, target, build_type,
                   listing, pc, to_compile, result, target0, begun>>

\* The Err of a task dropped, the run going on to the link stage.
CompileEnd_ignores_failure ==
    /\ pc = "compile"
    /\ failed \/ pending = {}
    /\ pc' = "link"
    /\ UNCHANGED result
    /\ UNCHANGED <<fsVars, staleVars, procVars, makeVars, clock, target, build_type, listing,
                   to_compile, pending, failed, cmds, target0, base, touched,
                   begun>>

\* try_for_each_init returns (main.rs 471, 506): with the first Err once a
\* task has failed, the tasks not started being dropped; with Ok once every
\* task has run.
CompileEnd ==
    /\ pc = "compile"
    /\ failed \/ pending = {}
    /\ IF failed
       THEN pc' = "idle" /\ result' = "compile_err"
       ELSE pc' = "link" /\ UNCHANGED result
    /\ UNCHANGED <<fsVars, staleVars, procVars, makeVars, clock, target, build_type, listing,
                   to_compile, pending, failed, cmds, target0, base, touched,
                   begun>>

\* The link/archive stage up to the spawn (main.rs 508-558).
LinkStage ==
    /\ pc = "link"
    /\ IF need_link
       THEN /\ IF build_type = "static"
               THEN cmds' = cmds \cup {ArCmd} /\ pc' = "archiving"
               ELSE cmds' = cmds \cup {LinkCmd} /\ pc' = "linking"
            /\ base' = FALSE
            /\ touched' = {}
            /\ UNCHANGED result
       ELSE /\ pc' = "idle"
            /\ result' = "ok"
            /\ base' = TRUE
            /\ touched' = {}
            /\ UNCHANGED cmds
    /\ UNCHANGED <<fsVars, staleVars, procVars, makeVars, clock, target, build_type, listing,
                   to_compile, pending, failed, target0, begun>>

\* The archiver or the linker exits (main.rs 539-542, 567-578).
LinkExit(ok) ==
    /\ pc \in {"linking", "archiving"}
    /\ pc' = "idle"
    /\ IF ok
       THEN target' = clock /\ result' = "ok" /\ base' = TRUE
       ELSE /\ UNCHANGED <<target, base>>
            /\ result' = IF pc = "archiving" THEN "archive_err" ELSE "link_err"
    /\ UNCHANGED <<fsVars, staleVars, procVars, makeVars, clock, build_type, listing, to_compile,
                   pending, failed, cmds, target0, touched, begun>>

NextBuild ==
    \/ \E f \in Files : Touch(f)
    \/ StartBuild
    \/ BuildGraph
    \/ BuildGraphFails
    \/ DetermineStale
    \/ \E src \in Sources, ok \in BOOLEAN : Compile(src, ok)
    \/ CompileEnd
    \/ LinkStage
    \/ \E ok \in BOOLEAN : LinkExit(ok)

SpecBuild == InitBuild /\ [][NextBuild]_vars

(***************************************************************************)
(* SpecSameName: the runs of SpecBuild over a project whose two sources    *)
(* have the same file name in different directories, a.c and sub/a.c.      *)
(***************************************************************************)
SameNameSources == {"a.c", "sub/a.c"}
SameNameFiles == SameNameSources \cup Headers

InitSameName ==
    /\ ProcAtRest
    /\ MakeAtRest
    /\ query = "none" /\ nr = NoCall
    /\ deps = EmptyGraph
    /\ mtime = [f \in SameNameFiles |-> 0]
    /\ objs = [o \in Objects |-> Missing]
    /\ ord = <<"a.c", "sub/a.c", "x.h", "y.h">>
    /\ patterns = <<"*.c", "sub/*.c">>
    /\ clock = 0
    /\ target = Missing
    /\ build_type \in BuildTypes
    /\ listing \in {[f \in SameNameFiles |->
                        CASE f = "a.c" -> {"x.h"}
                          [] f = "sub/a.c" -> IF twin THEN {"y.h"} ELSE {}
                          [] OTHER -> {}] : twin \in BOOLEAN}
    /\ pc = "idle"
    /\ to_compile = {}
    /\ pending = {}
    /\ failed = FALSE
    /\ cmds = {}
    /\ result = "none"
    /\ target0 = Missing
    /\ base = FALSE
    /\ touched = {}
    /\ begun = [base |-> FALSE, touched |-> {}]

NextSameName ==
    \/ \E f \in SameNameFiles : Touch(f)
    \/ StartBuild
    \/ BuildGraph
    \/ BuildGraphFails
    \/ DetermineStale
    \/ \E src \in SameNameSources, ok \in BOOLEAN : Compile(src, ok)
    \/ CompileEnd
    \/ LinkStage
    \/ \E ok \in BOOLEAN : LinkExit(ok)

SpecSameName == InitSameName /\ [][NextSameName]_vars

(***************************************************************************)
(* SpecPatterns: the runs of SpecBuild under configurations whose patterns *)
(* overlap: a file matched by two patterns, a pattern listed twice.        *)
(***************************************************************************)
PatternLists == {<<"*.c">>, <<"*.c", "a.c">>, <<"a.c", "*.c">>, <<"*.c", "*.c">>}

InitPatterns ==
    /\ ProcAtRest
    /\ MakeAtRest
    /\ query = "none" /\ nr = NoCall
    /\ deps = EmptyGraph
    /\ mtime = [f \in Files |-> 0]
    /\ objs = [o \in Objects |-> Missing]
    /\ ord = <<"a.c", "b.c", "x.h", "y.h">>
    /\ patterns \in PatternLists
    /\ clock = 0
    /\ target = Missing
    /\ build_type \in BuildTypes
    /\ listing = ListingOf(IncludeLines(TRUE, FALSE, FALSE), FALSE)
    /\ pc = "idle"
    /\ to_compile = {}
    /\ pending = {}
    /\ failed = FALSE
    /\ cmds = {}
    /\ result = "none"
    /\ target0 = Missing
    /\ base = FALSE
    /\ touched = {}
    /\ begun = [base |-> FALSE, touched |-> {}]

SpecPatterns == InitPatterns /\ [][NextBuild]_vars

(***************************************************************************)
(* SpecProc: one run of "hbuild make" on a c/c++ project, from the entry   *)
(* of compile_c_cpp to the exit of the program, as its threads take their  *)
(* steps: the main thread, the workers of the pool (main.rs 471-506), the  *)
(* thread of the interrupt handler (main.rs 83-89); and the child          *)
(* processes, which exit on their own or are killed.                       *)
(***************************************************************************)
\* The variables no step of SpecProc changes.
procConst == <<ord, patterns, mtime, staleVars, makeVars, clock, build_type, listing, cmds,
               target0, base, touched, begun>>

\* The files the graph building queries, in order (main.rs 443-453).
Queries == graph_loop(1, EmptyGraph, <<>>).q

Exited(p) == proc[p] \in {"exit0", "exit1"}

InitProc ==
    /\ ProcAtRest
    /\ MakeAtRest
    /\ query = "none" /\ nr = NoCall
    /\ deps = EmptyGraph
    /\ mtime = [f \in Files |-> 0]
    /\ objs \in [Objects -> {Missing, 0}]
    /\ ord = <<"a.c", "b.c", "x.h", "y.h">>
    /\ patterns = <<"*.c">>
    /\ clock = 0
    /\ target \in {Missing, 0}
    /\ build_type \in BuildTypes
    /\ listing = ListingOf(IncludeLines(FALSE, FALSE, FALSE), FALSE)
    /\ pc = "graph"
    /\ to_compile = {}
    /\ pending = {}
    /\ failed = FALSE
    /\ cmds = {}
    /\ result = "none"
    /\ target0 = Missing
    /\ base = FALSE
    /\ touched = {}
    /\ begun = [base |-> FALSE, touched |-> {}]

\* A child process exits on its own, with status zero (ok) or not; a
\* compiler or linker that exits with zero has written its output.
ChildExit(p, ok) ==
    /\ proc[p] = "running"
    /\ proc' = [proc EXCEPT ![p] = IF ok THEN "exit0" ELSE "exit1"]
    /\ objs' = IF ok /\ p.kind = "compile"
               THEN [objs EXCEPT ![obj_path(p.file)] = clock]
               ELSE objs
    /\ target' = IF ok /\ p.kind \in {"link", "archive"} THEN clock ELSE target
    /\ UNCHANGED <<procConst, deps, pc, to_compile, pending, failed, result,
                   children, lock, wpc, wtask, hpc, hsnap, prog, qi>>

\* get_dependencies runs the query (main.rs 361-365): output() spawns it ...
M_ScanSpawn ==
    /\ prog = "running"
    /\ pc = "graph"
    /\ proc' = [proc EXCEPT ![ScanProc(Queries[qi])] = "running"]
    /\ pc' = "graph_wait"
    /\ UNCHANGED <<procConst, deps, objs, target, to_compile, pending, failed,
                   result, children, lock, wpc, wtask, hpc, hsnap, prog, qi>>

\* ... and waits for it); a non-zero exit returns Err through compile_c_cpp,
\* make and main (main.rs 366-368, 444, 448, 592, 114); after the last query
\* the graph is built (main.rs 452).
M_ScanWait ==
    /\ prog = "running"
    /\ pc = "graph_wait"
    /\ Exited(ScanProc(Queries[qi]))
    /\ proc' = [proc EXCEPT ![ScanProc(Queries[qi])] = "reaped"]
    /\ IF proc[ScanProc(Queries[qi])] = "exit1"
       THEN pc' = "done" /\ result' = "scan_err" /\ UNCHANGED <<qi, deps>>
       ELSE IF qi < Len(Queries)
       THEN pc' = "graph" /\ qi' = qi + 1 /\ UNCHANGED <<result, deps>>
       ELSE /\ pc' = "stale"
            /\ deps' = graph_loop(1, EmptyGraph, <<>>).g
            /\ UNCHANGED <<result, qi>>
    /\ UNCHANGED <<procConst, objs, target, to_compile, pending, failed,
                   children, lock, wpc, wtask, hpc, hsnap, prog>>

\* The sources that need recompilation (main.rs 455-468).
M_Stale ==
    /\ prog = "running"
    /\ pc = "stale"
    /\ IF \E i \in 1..Len(sources) : StaleCheck(sources[i]).ovf
       THEN prog' = "abort" /\ UNCHANGED <<to_compile, pending, pc>>
       ELSE /\ pending' = {j \in 1..Len(sources) : StaleCheck(sources[j]).res}
            /\ to_compile' = {sources[j] : j \in pending'}
            /\ pc' = "compile"
            /\ UNCHANGED prog
    /\ UNCHANGED <<procConst, deps, objs, target, failed, result, proc, children,
                   lock, wpc, wtask, hpc, hsnap, qi>>

\* A worker taking the next source whether or not a task has failed.
W_Pick_after_failure(w, src) ==
    /\ prog = "running"
    /\ pc = "compile"
    /\ wpc[w] = "idle"
    /\ HasTask(src)
    /\ pending' = pending \ {TaskOf(src)}
    /\ wtask' = [wtask EXCEPT ![w] = src]
    /\ wpc' = [wpc EXCEPT ![w] = "spawn"]
    /\ UNCHANGED <<procConst, deps, objs, target, pc, to_compile, failed, result,
                   proc, children, lock, hpc, hsnap, prog, qi>>

\* A worker takes the next source of to_compile; once a task has returned
\* Err no further source is started (try_for_each_init, main.rs 471).
W_Pick(w, src) ==
    /\ prog = "running"
    /\ pc = "compile"
    /\ wpc[w] = "idle"
    /\ HasTask(src)
    /\ ~failed
    /\ pending' = pending \ {TaskOf(src)}
    /\ wtask' = [wtask EXCEPT ![w] = src]
    /\ wpc' = [wpc EXCEPT ![w] = "spawn"]
    /\ UNCHANGED <<procConst, deps, objs, target, pc, to_compile, failed, result,
                   proc, children, lock, hpc, hsnap, prog, qi>>

\* Command::new(compiler)...spawn() (main.rs 480-485).
W_Spawn(w) ==
    /\ prog = "running"
    /\ wpc[w] = "spawn"
    /\ proc' = [proc EXCEPT ![CompileProc(wtask[w])] = "running"]
    /\ wpc' = [wpc EXCEPT ![w] = "spawned"]
    /\ UNCHANGED <<procConst, deps, objs, target, pc, to_compile, pending, failed,
                   result, children, lock, wtask, hpc, hsnap, prog, qi>>

\* children_arc.lock() before the push (main.rs 490).
W_Lock(w) ==
    /\ prog = "running"
    /\ wpc[w] = "spawned"
    /\ lock = "free"
    /\ lock' = w
    /\ wpc' = [wpc EXCEPT ![w] = "locked"]
    /\ UNCHANGED <<procConst, deps, objs, target, pc, to_compile, pending, failed,
                   result, proc, children, wtask, hpc, hsnap, prog, qi>>

\* The push with the guard kept: the lock is not released.
W_Push_keeps_lock(w) ==
    /\ prog = "running"
    /\ wpc[w] = "locked"
    /\ children' = children \cup {CompileProc(wtask[w])}
    /\ wpc' = [wpc EXCEPT ![w] = "wait"]
    /\ UNCHANGED <<procConst, deps, objs, target, pc, to_compile, pending, failed,
                   result, proc, lock, wtask, hpc, hsnap, prog, qi>>

\* guards.push(child_id), and the guard is dropped (main.rs 491-492).
W_Push(w) ==
    /\ prog = "running"
    /\ wpc[w] = "locked"
    /\ children' = children \cup {CompileProc(wtask[w])}
    /\ lock' = "free"
    /\ wpc' = [wpc EXCEPT ![w] = "wait"]
    /\ UNCHANGED <<procConst, deps, objs, target, pc, to_compile, pending, failed,
                   result, proc, wtask, hpc, hsnap, prog, qi>>

\* child.wait_with_output() returns; on a non-zero status the task returns
\* Err at once (main.rs 494-498).
W_Wait(w) ==
    /\ prog = "running"
    /\ wpc[w] = "wait"
    /\ Exited(CompileProc(wtask[w]))
    /\ proc' = [proc EXCEPT ![CompileProc(wtask[w])] = "reaped"]
    /\ IF proc[CompileProc(wtask[w])] = "exit1"
       THEN /\ failed' = TRUE
            /\ wpc' = [wpc EXCEPT ![w] = "idle"]
            /\ wtask' = [wtask EXCEPT ![w] = "none"]
       ELSE /\ wpc' = [wpc EXCEPT ![w] = "exited"]
            /\ UNCHANGED <<failed, wtask>>
    /\ UNCHANGED <<procConst, deps, objs, target, pc, to_compile, pending, result,
                   children, lock, hpc, hsnap, prog, qi>>

\* children_arc.lock() before the retain (main.rs 500).
W_Lock2(w) ==
    /\ prog = "running"
    /\ wpc[w] = "exited"
    /\ lock = "free"
    /\ lock' = w
    /\ wpc' = [wpc EXCEPT ![w] = "locked2"]
    /\ UNCHANGED <<procConst, deps, objs, target, pc, to_compile, pending, failed,
                   result, proc, children, wtask, hpc, hsnap, prog, qi>>

\* guards.retain(|&p| p != child_id), the guard is dropped, Ok(()) (main.rs 502-504).
W_Retain(w) ==
    /\ prog = "running"
    /\ wpc[w] = "locked2"
    /\ children' = children \ {CompileProc(wtask[w])}
    /\ lock' = "free"
    /\ wpc' = [wpc EXCEPT ![w] = "idle"]
    /\ wtask' = [wtask EXCEPT ![w] = "none"]
    /\ UNCHANGED <<procConst, deps, objs, target, pc, to_compile, pending, failed,
                   result, proc, hpc, hsnap, prog, qi>>

\* try_for_each_init returning as soon as no source is left to start.
M_CompileJoin_without_join ==
    /\ prog = "running"
    /\ pc = "compile"
    /\ failed \/ pending = {}
    /\ IF failed
       THEN pc' = "done" /\ result' = "compile_err"
       ELSE pc' = "link" /\ UNCHANGED result
    /\ UNCHANGED <<procConst, deps, objs, target, to_compile, pending, failed,
                   proc, children, lock, wpc, wtask, hpc, hsnap, prog, qi>>

\* try_for_each_init returns to the main thread once no task is running:
\* Err, returned by "?", when a task failed (main.rs 506).
M_CompileJoin ==
    /\ prog = "running"
    /\ pc = "compile"
    /\ \A w \in Workers : wpc[w] = "idle"
    /\ failed \/ pending = {}
    /\ IF failed
       THEN pc' = "done" /\ result' = "compile_err"
       ELSE pc' = "link" /\ UNCHANGED result
    /\ UNCHANGED <<procConst, deps, objs, target, to_compile, pending, failed,
                   proc, children, lock, wpc, wtask, hpc, hsnap, prog, qi>>

\* The link/archive stage up to the spawn of ar or of the linker
\* (main.rs 508-558).
M_LinkStage ==
    /\ prog = "running"
    /\ pc = "link"
    /\ IF need_link
       THEN /\ IF build_type = "static"
               THEN /\ proc' = [proc EXCEPT ![ArProc] = "running"]
                    /\ pc' = "archiving"
               ELSE /\ proc' = [proc EXCEPT ![LinkProc] = "running"]
                    /\ pc' = "link_spawned"
            /\ UNCHANGED result
       ELSE pc' = "done" /\ result' = "ok" /\ UNCHANGED proc
    /\ UNCHANGED <<procConst, deps, objs, target, to_compile, pending, failed,
                   children, lock, wpc, wtask, hpc, hsnap, prog, qi>>

\* Command::new("ar")...status() returns (main.rs 534-542).
M_ArWait ==
    /\ prog = "running"
    /\ pc = "archiving"
    /\ Exited(ArProc)
    /\ proc' = [proc EXCEPT ![ArProc] = "reaped"]
    /\ result' = IF proc[ArProc] = "exit0" THEN "ok" ELSE "archive_err"
    /\ pc' = "done"
    /\ UNCHANGED <<procConst, deps, objs, target, to_compile, pending, failed,
                   children, lock, wpc, wtask, hpc, hsnap, prog, qi>>

\* children.lock() before the push of the linker (main.rs 563).
M_LinkLock ==
    /\ prog = "running"
    /\ pc = "link_spawned"
    /\ lock = "free"
    /\ lock' = "main"
    /\ pc' = "link_locked"
    /\ UNCHANGED <<procConst, deps, objs, target, to_compile, pending, failed,
                   result, proc, children, wpc, wtask, hpc, hsnap, prog, qi>>

\* guards.push(child_id) (main.rs 564-565).
M_LinkPush ==
    /\ prog = "running"
    /\ pc = "link_locked"
    /\ children' = children \cup {LinkProc}
    /\ lock' = "free"
    /\ pc' = "linking"
    /\ UNCHANGED <<procConst, deps, objs, target, to_compile, pending, failed,
                   result, proc, wpc, wtask, hpc, hsnap, prog, qi>>

\* child.wait_with_output() returns; a non-zero status returns Err at once
\* (main.rs 567-571).
M_LinkWait ==
    /\ prog = "running"
    /\ pc = "linking"
    /\ Exited(LinkProc)
    /\ proc' = [proc EXCEPT ![LinkProc] = "reaped"]
    /\ IF proc[LinkProc] = "exit1"
       THEN pc' = "done" /\ result' = "link_err"
       ELSE pc' = "link_exited" /\ UNCHANGED result
    /\ UNCHANGED <<procConst, deps, objs, target, to_compile, pending, failed,
                   children, lock, wpc, wtask, hpc, hsnap, prog, qi>>

\* children.lock() before the retain (main.rs 573).
M_LinkLock2 ==
    /\ prog = "running"
    /\ pc = "link_exited"
    /\ lock = "free"
    /\ lock' = "main"
    /\ pc' = "link_locked2"
    /\ UNCHANGED <<procConst, deps, objs, target, to_compile, pending, failed,
                   result, proc, children, wpc, wtask, hpc, hsnap, prog, qi>>

\* guards.retain(|&p| p != child_id), Ok(()) (main.rs 575-578).
M_LinkRetain ==
    /\ prog = "running"
    /\ pc = "link_locked2"
    /\ children' = children \ {LinkProc}
    /\ lock' = "free"
    /\ pc' = "done"
    /\ result' = "ok"
    /\ UNCHANGED <<procConst, deps, objs, target, to_compile, pending, failed,
                   proc, wpc, wtask, hpc, hsnap, prog, qi>>

\* compile_c_cpp has returned; make and main return and the program exits
\* (main.rs 592, 114, 126).
M_Exit ==
    /\ prog = "running"
    /\ pc = "done"
    /\ prog' = IF result = "ok" THEN "exit0" ELSE "exit1"
    /\ UNCHANGED <<procConst, deps, objs, target, pc, to_compile, pending, failed,
                   result, proc, children, lock, wpc, wtask, hpc, hsnap, qi>>

\* An interrupt is delivered to the program: the handler's thread is woken
\* (main.rs 83).
Interrupt ==
    /\ prog = "running"
    /\ hpc = "idle"
    /\ hpc' = "lock"
    /\ UNCHANGED <<procConst, deps, objs, target, pc, to_compile, pending, failed,
                   result, proc, children, lock, wpc, wtask, hsnap, prog, qi>>

\* children_clone.lock() (main.rs 84); the guard lives to the exit.
H_Lock ==
    /\ prog = "running"
    /\ hpc = "lock"
    /\ lock = "free"
    /\ lock' = "handler"
    /\ hsnap' = children
    /\ hpc' = "kill"
    /\ UNCHANGED <<procConst, deps, objs, target, pc, to_compile, pending, failed,
                   result, proc, children, wpc, wtask, prog, qi>>

\* Command::new("kill").arg("-9").arg(pid).status(), for one identifier of
\* the registry (main.rs 85-86): status() spawns the command ...
H_Kill(p) ==
    /\ prog = "running"
    /\ hpc = "kill"
    /\ p \in hsnap
    /\ hsnap' = hsnap \ {p}
    /\ proc' = [proc EXCEPT ![KillProc(p)] = "running"]
    /\ hpc' = "kill_wait"
    /\ UNCHANGED <<procConst, deps, objs, target, pc, to_compile, pending, failed,
                   result, children, lock, wpc, wtask, prog, qi>>

\* The kill command sends the signal and exits; a process that has exited
\* already is not affected.
KillRuns(p) ==
    /\ proc[KillProc(p)] = "running"
    /\ proc' = [proc EXCEPT ![KillProc(p)] = "exit0",
                            ![p] = IF @ = "running" THEN "exit1" ELSE @]
    /\ UNCHANGED <<procConst, deps, objs, target, pc, to_compile, pending, failed,
                   result, children, lock, wpc, wtask, hpc, hsnap, prog, qi>>

\* ... and waits for it to exit; its status is dropped (main.rs 86).
H_KillWait(p) ==
    /\ prog = "running"
    /\ hpc = "kill_wait"
    /\ Exited(KillProc(p))
    /\ proc' = [proc EXCEPT ![KillProc(p)] = "reaped"]
    /\ hpc' = "kill"
    /\ UNCHANGED <<procConst, deps, objs, target, pc, to_compile, pending, failed,
                   result, children, lock, wpc, wtask, hsnap, prog, qi>>

\* std::process::exit(1) (main.rs 88).
H_Exit ==
    /\ prog = "running"
    /\ hpc = "kill"
    /\ hsnap = {}
    /\ hpc' = "exited"
    /\ prog' = "exit1"
    /\ UNCHANGED <<procConst, deps, objs, target, pc, to_compile, pending, failed,
                   result, proc, children, lock, wpc, wtask, hsnap, qi>>

NextProc ==
    \/ \E p \in Procs, ok \in BOOLEAN : ChildExit(p, ok)
    \/ M_ScanSpawn
    \/ M_ScanWait
    \/ M_Stale
    \/ \E w \in Workers, src \in Sources : W_Pick(w, src)
    \/ \E w \in Workers : W_Spawn(w)
    \/ \E w \in Workers : W_Lock(w)
    \/ \E w \in Workers : W_Push(w)
    \/ \E w \in Workers : W_Wait(w)
    \/ \E w \in Workers : W_Lock2(w)
    \/ \E w \in Workers : W_Retain(w)
    \/ M_CompileJoin
    \/ M_LinkStage
    \/ M_ArWait
    \/ M_LinkLock
    \/ M_LinkPush
    \/ M_LinkWait
    \/ M_LinkLock2
    \/ M_LinkRetain
    \/ M_Exit
    \/ Interrupt
    \/ H_Lock
    \/ \E p \in Tracked : H_Kill(p)
    \/ \E p \in Tracked : KillRuns(p)
    \/ \E p \in Tracked : H_KillWait(p)
    \/ H_Exit

SpecProc == InitProc /\ [][NextProc]_vars

\* The steps that the scheduling makes happen: a thread that holds the lock
\* goes on to release it, the handler's thread runs when it can, and the
\* kill command it has spawned runs and exits.  A compiler or a linker may
\* run for ever, and the main thread and the workers may be arbitrarily slow.
FairProc ==
    /\ WF_vars(H_Lock)
    /\ WF_vars(\E p \in Tracked : H_Kill(p))
    /\ WF_vars(\E p \in Tracked : KillRuns(p))
    /\ WF_vars(\E p \in Tracked : H_KillWait(p))
    /\ WF_vars(H_Exit)
    /\ \A w \in Workers : WF_vars(W_Push(w)) /\ WF_vars(W_Retain(w))
    /\ WF_vars(M_LinkPush)
    /\ WF_vars(M_LinkRetain)

SpecProcFair == SpecProc /\ FairProc

(***************************************************************************)
(* SpecMake: make (main.rs 581-624) after the configuration is parsed:     *)
(* install_deps, then the loop over the declared languages, one action per *)
(* arm of the match.  What the native pipeline does inside is SpecBuild's  *)
(* and SpecProc's; here it returns Ok or one of its errors.                *)
(***************************************************************************)
\* The languages a configuration declares: one with an external build
\* command, python, the two native ones, one the match does not know.
Langs == {"rust", "python", "c", "c++", "bogus"}

External == {"rust"}
Native == {"c", "c++"}
Known == External \cup Native \cup {"python"}

RECURSIVE SeqsUpTo(_, _)
SeqsUpTo(S, n) ==
    IF n = 0 THEN {<<>>}
    ELSE LET shorter == SeqsUpTo(S, n - 1)
         IN  shorter \cup {Append(q, x) : q \in shorter, x \in S}

\* The errors compile_c_cpp returns: of the dependency query (main.rs 367),
\* of a compile task (497), of the linker (570) or the archiver (540).
NativeErrors == {"scan_err", "compile_err", "link_err", "archive_err"}

\* compile_c_cpp up to the worker pool (main.rs 425-427): build_global
\* returns Err when the process has built its global pool already, and "?"
\* returns it.
PoolInitFails == pool_built

OtherVarsOfMake == <<fsVars, staleVars, buildVars, procVars>>

InitMake ==
    /\ BuildAtRest
    /\ ProcAtRest
    /\ query = "none" /\ nr = NoCall
    /\ deps = EmptyGraph
    /\ mtime = [f \in Files |-> 0]
    /\ objs = [o \in Objects |-> Missing]
    /\ ord = <<"a.c", "b.c", "x.h", "y.h">>
    /\ patterns = <<"*.c">>
    /\ languages \in SeqsUpTo(Langs, MaxLangs)
    /\ has_requirements \in BOOLEAN
    /\ dep_native \in BOOLEAN
    /\ mpc = "deps"
    /\ li = 1
    /\ outcome = [i \in 1..Len(languages) |-> "pending"]
    /\ spawns = {}
    /\ pool_built = FALSE
    /\ make_result = "none"
    /\ make_error = NoError

\* install_deps (main.rs 294-323, 585): a fetched dependency that has a
\* config is built by make, which runs the native pipeline when the config
\* declares c or c++ (main.rs 309-311); an error of it is returned by "?".
InstallDeps(res) ==
    /\ mpc = "deps"
    /\ IF dep_native
       THEN /\ pool_built' = TRUE
            /\ IF res = "ok"
               THEN mpc' = "loop" /\ UNCHANGED <<make_result, make_error>>
               ELSE /\ mpc' = "done"
                    /\ make_result' = "Err"
                    /\ make_error' = [at |-> "deps", what |-> res]
       ELSE /\ res = "ok"
            /\ mpc' = "loop"
            /\ UNCHANGED <<pool_built, make_result, make_error>>
    /\ UNCHANGED <<OtherVarsOfMake, languages, has_requirements, dep_native, li,
                   outcome, spawns>>

\* The arms that run an external build command (main.rs 590, 595, 603-605):
\* status() is Ok with a zero or non-zero status, or Err when the command
\* cannot be launched; both failures are printed and the loop goes on
\* (main.rs 611-617).
BuildExternal(st) ==
    /\ mpc = "loop"
    /\ li <= Len(languages)
    /\ languages[li] \in External
    /\ spawns' = IF st = "no_launch" THEN spawns ELSE spawns \cup {li}
    /\ outcome' = [outcome EXCEPT ![li] = IF st = "exit0" THEN "succeeded"
                                                           ELSE "failed"]
    /\ li' = li + 1
    /\ UNCHANGED <<OtherVarsOfMake, languages, has_requirements, dep_native, mpc,
                   pool_built, make_result, make_error>>

\* The arm "python" (main.rs 596-602): pip when requirements.txt exists.
BuildPython(st) ==
    /\ mpc = "loop"
    /\ li <= Len(languages)
    /\ languages[li] = "python"
    /\ IF has_requirements
       THEN /\ spawns' = IF st = "no_launch" THEN spawns ELSE spawns \cup {li}
            /\ outcome' = [outcome EXCEPT ![li] = IF st = "exit0" THEN "succeeded"
                                                                   ELSE "failed"]
       ELSE /\ st = "exit0"
            /\ UNCHANGED spawns
            /\ outcome' = [outcome EXCEPT ![li] = "succeeded"]
    /\ li' = li + 1
    /\ UNCHANGED <<OtherVarsOfMake, languages, has_requirements, dep_native, mpc,
                   pool_built, make_result, make_error>>

\* The arm "c" | "c++" (main.rs 591-594): compile_c_cpp(...)? returns its
\* error from make.
BuildNative(res) ==
    /\ mpc = "loop"
    /\ li <= Len(languages)
    /\ languages[li] \in Native
    /\ IF PoolInitFails
       THEN /\ res = "pool_err"
            /\ UNCHANGED <<pool_built, spawns>>
       ELSE /\ res \in {"ok"} \cup NativeErrors
            /\ pool_built' = TRUE
            /\ spawns' = spawns \cup {li}
    /\ IF res = "ok"
       THEN /\ outcome' = [outcome EXCEPT ![li] = "succeeded"]
            /\ li' = li + 1
            /\ UNCHANGED <<mpc, make_result, make_error>>
       ELSE /\ outcome' = [outcome EXCEPT ![li] = "failed"]
            /\ mpc' = "done"
            /\ make_result' = "Err"
            /\ make_error' = [at |-> "loop", what |-> res]
            /\ UNCHANGED li
    /\ UNCHANGED <<OtherVarsOfMake, languages, has_requirements, dep_native>>

\* The arm "_" reporting the language as failed.
BuildUnsupported_reported_failed ==
    /\ mpc = "loop"
    /\ li <= Len(languages)
    /\ languages[li] \notin Known
    /\ outcome' = [outcome EXCEPT ![li] = "failed"]
    /\ li' = li + 1
    /\ UNCHANGED <<OtherVarsOfMake, languages, has_requirements, dep_native, mpc,
                   spawns, pool_built, make_result, make_error>>

\* The arm "_" (main.rs 606-609): a warning, and a zero status, for which
\* nothing more is printed (main.rs 611-614).
BuildUnsupported ==
    /\ mpc = "loop"
    /\ li <= Len(languages)
    /\ languages[li] \notin Known
    /\ outcome' = [outcome EXCEPT ![li] = "skipped"]
    /\ li' = li + 1
    /\ UNCHANGED <<OtherVarsOfMake, languages, has_requirements, dep_native, mpc,
                   spawns, pool_built, make_result, make_error>>

\* The loop is over: "Build complete!", Ok(()) (main.rs 619, 623).
MakeReturns ==
    /\ mpc = "loop"
    /\ li > Len(languages)
    /\ mpc' = "done"
    /\ make_result' = "Ok"
    /\ UNCHANGED <<OtherVarsOfMake, languages, has_requirements, dep_native, li,
                   outcome, spawns, pool_built, make_error>>

ExitStatuses == {"exit0", "exit1", "no_launch"}

NextMake ==
    \/ \E res \in {"ok"} \cup NativeErrors : InstallDeps(res)
    \/ \E st \in ExitStatuses : BuildExternal(st)
    \/ \E st \in ExitStatuses : BuildPython(st)
    \/ \E res \in {"ok", "pool_err"} \cup NativeErrors : BuildNative(res)
    \/ BuildUnsupported
    \/ MakeReturns

SpecMake == InitMake /\ [][NextMake]_vars

(***************************************************************************)
(* SpecMakeNative: make with the native pipeline run inside it: the arm    *)
(* "c" | "c++" enters compile_c_cpp, whose blocks are the actions of       *)
(* SpecBuild, and takes what it returns (main.rs 592).                     *)
(***************************************************************************)
InitMakeNative ==
    /\ ProcAtRest
    /\ query = "none" /\ nr = NoCall
    /\ deps = EmptyGraph
    /\ mtime = [f \in Files |-> 0]
    /\ objs = [o \in Objects |-> Missing]
    /\ ord = <<"a.c", "b.c", "x.h", "y.h">>
    /\ patterns = <<"*.c">>
    /\ clock = 0
    /\ target = Missing
    /\ build_type \in BuildTypes
    /\ listing \in {ListingOf(IncludeLines(FALSE, FALSE, FALSE), self) :
                        self \in BOOLEAN}
    /\ pc = "idle"
    /\ to_compile = {}
    /\ pending = {}
    /\ failed = FALSE
    /\ cmds = {}
    /\ result = "none"
    /\ target0 = Missing
    /\ base = FALSE
    /\ touched = {}
    /\ begun = [base |-> FALSE, touched |-> {}]
    /\ languages \in SeqsUpTo(Langs, MaxLangs)
    /\ has_requirements = TRUE
    /\ dep_native = FALSE
    /\ mpc = "deps"
    /\ li = 1
    /\ outcome = [i \in 1..Len(languages) |-> "pending"]
    /\ spawns = {}
    /\ pool_built = FALSE
    /\ make_result = "none"
    /\ make_error = NoError

\* The arm "c" | "c++" calls compile_c_cpp (main.rs 592), which runs up to
\* the sources (main.rs 381-439); build_global()? returns its error when
\* the pool exists already (main.rs 427).
NativeEnter ==
    /\ mpc = "loop"
    /\ li <= Len(languages)
    /\ languages[li] \in Native
    /\ pc = "idle"
    /\ IF PoolInitFails
       THEN /\ outcome' = [outcome EXCEPT ![li] = "failed"]
            /\ mpc' = "done"
            /\ make_result' = "Err"
            /\ make_error' = [at |-> "loop", what |-> "pool_err"]
            /\ UNCHANGED <<pool_built, pc, deps, to_compile, pending, failed,
                           cmds, result, target0, begun>>
       ELSE /\ pool_built' = TRUE
            /\ mpc' = "native"
            /\ pc' = "graph"
            /\ deps' = EmptyGraph
            /\ to_compile' = {}
            /\ pending' = {}
            /\ failed' = FALSE
            /\ cmds' = {}
            /\ result' = "none"
            /\ target0' = target
            /\ begun' = [base |-> base, touched |-> touched]
            /\ UNCHANGED <<outcome, make_result, make_error>>
    /\ UNCHANGED <<mtime, objs, ord, patterns, staleVars, procVars, clock, target,
                   build_type, listing, base, touched, languages,
                   has_requirements, dep_native, li, spawns>>

\* compile_c_cpp returning Err, the error printed and the loop going on.
NativeReturn_passes_over_errors ==
    /\ mpc = "native"
    /\ pc = "idle"
    /\ spawns' = IF cmds # {} THEN spawns \cup {li} ELSE spawns
    /\ outcome' = [outcome EXCEPT ![li] = IF result = "ok" THEN "succeeded"
                                                            ELSE "failed"]
    /\ li' = li + 1
    /\ mpc' = "loop"
    /\ UNCHANGED <<make_result, make_error>>
    /\ UNCHANGED <<OtherVarsOfMake, languages, has_requirements, dep_native,
                   pool_built>>

\* compile_c_cpp(...)? (main.rs 592-593): Ok gives the zero status and the
\* loop goes on; Err is returned from make at once.  A run that overflowed
\* the stack has ended the process.
NativeReturn ==
    /\ mpc = "native"
    /\ pc = "idle"
    /\ spawns' = IF cmds # {} THEN spawns \cup {li} ELSE spawns
    /\ IF result = "ok"
       THEN /\ outcome' = [outcome EXCEPT ![li] = "succeeded"]
            /\ li' = li + 1
            /\ mpc' = "loop"
            /\ UNCHANGED <<make_result, make_error>>
       ELSE /\ outcome' = [outcome EXCEPT ![li] = "failed"]
            /\ mpc' = "done"
            /\ make_result' = IF result = "crash" THEN "abort" ELSE "Err"
            /\ make_error' = [at |-> "loop", what |-> result]
            /\ UNCHANGED li
    /\ UNCHANGED <<OtherVarsOfMake, languages, has_requirements, dep_native,
                   pool_built>>

NextMakeNative ==
    \/ \E res \in {"ok"} \cup NativeErrors : InstallDeps(res)
    \/ \E st \in ExitStatuses : BuildExternal(st)
    \/ \E st \in ExitStatuses : BuildPython(st)
    \/ NativeEnter
    \/ BuildGraph
    \/ BuildGraphFails
    \/ DetermineStale
    \/ \E src \in Sources, ok \in BOOLEAN : Compile(src, ok)
    \/ CompileEnd
    \/ LinkStage
    \/ \E ok \in BOOLEAN : LinkExit(ok)
    \/ NativeReturn
    \/ BuildUnsupported
    \/ MakeReturns

SpecMakeNative == InitMakeNative /\ [][NextMakeNative]_vars

(***************************************************************************)
(* The staleness the design describes, stated over the graph: what a file  *)
(* reaches, and whether some reached file is missing or newer.             *)
(***************************************************************************)
\* No file reached from f includes itself, directly or through others.
Acyclic(g, f) ==
    \A x \in Reach(g, f) : \A y \in Edges(g, x) : x \notin Reach(g, y)

ObjTime(src) ==
    IF objs[obj_path(src)] # Missing THEN objs[obj_path(src)] ELSE UNIX_EPOCH

StaleByTimes(src) ==
    \/ objs[obj_path(src)] = Missing
    \/ \E f \in Reach(deps, src) : mtime[f] = Missing \/ mtime[f] > ObjTime(src)

Called == nr.src # "none"

\* C1: the staleness check terminates with a boolean for every source and
\* every dependency graph, a graph with a cycle or a file listed among its
\* own dependencies included: the recursion never runs past the stack.
C1_StalenessTerminates == Called => ~nr.ovf

\* C5: on an acyclic dependency graph the staleness check returns true
\* exactly when the object is missing, or the source or a file reached from
\* it through the graph cannot be stat'd or is strictly newer than the object.
C5_StaleExactlyWhenNewer ==
    (Called /\ Acyclic(deps, query)) =>
        (~nr.ovf /\ (nr.res <=> StaleByTimes(query)))

\* C5's case: a header two includes away is the only file newer than the
\* object, and the check returned true.
C5_Witness ==
    /\ Called /\ Acyclic(deps, query) /\ nr.res /\ ~nr.ovf
    /\ deps[query] = {"x.h"} /\ deps["x.h"] = {"y.h"}
    /\ objs[obj_path(query)] = 0
    /\ mtime[query] = 0 /\ mtime["x.h"] = 0 /\ mtime["y.h"] = 1

\* C6: when the object file does not exist the staleness check returns true,
\* whatever the dependency graph and the timestamps.
C6_MissingObjectIsStale ==
    (Called /\ objs[obj_path(query)] = Missing) => (nr.res /\ ~nr.ovf)

\* C6's case: no object, a graph with a cycle, no file newer than the epoch.
C6_Witness ==
    /\ Called /\ nr.res
    /\ objs[obj_path(query)] = Missing
    /\ ~Acyclic(deps, query)
    /\ \A f \in Files : mtime[f] = 0

(***************************************************************************)
(* Claims about the runs of the native pipeline (SpecBuild).               *)
(***************************************************************************)
Spawned(mode) == {c \in cmds : c.mode = mode}

\* The sources a compile process was spawned for in this run.
compiled == {c.file : c \in Spawned("compile")}

PastStaleness == pc \in {"compile", "link", "linking", "archiving"}

\* C7: from a state in which every source is up to date, giving a header H a
\* newer modification time makes the next run judge stale exactly the
\* sources that include H, directly or transitively.
C7_TouchedHeaderMarksItsIncluders ==
    \A h \in Headers :
        (begun.base /\ begun.touched = {h}) =>
            /\ result # "crash"
            /\ PastStaleness =>
                  to_compile = {s \in Sources : h \in Reach(deps, s)}

\* C8: a run that begins after a successful run, with no file touched in
\* between, spawns no compile process and no link or archive process.
C8_SecondBuildSpawnsNothing ==
    (begun.base /\ begun.touched = {}) =>
        (Spawned("compile") = {} /\ Spawned("link") = {} /\ Spawned("archive") = {})

\* C8's case: such a second run went through every stage and returned Ok.
C8_Witness ==
    /\ begun.base /\ begun.touched = {}
    /\ pc = "idle" /\ result = "ok"
    /\ Spawned("scan") # {}

\* Relinking is required, by the files as they are.
RelinkRequired ==
    \/ target = Missing
    \/ compiled # {}
    \/ \E o \in Objects : objs[o] # Missing /\ objs[o] > target

\* C9: the link/archive stage spawns the linker or the archiver exactly
\* when the target is missing, or a source was compiled in this run, or an
\* existing object is newer than the target; otherwise it spawns nothing
\* and the target is as it was when the run began.
C9_LinkExactlyWhenRequired ==
    /\ pc \in {"linking", "archiving"} =>
          (RelinkRequired /\ Spawned("link") \cup Spawned("archive") # {})
    /\ (pc = "idle" /\ result = "ok" /\ Spawned("link") \cup Spawned("archive") = {}) =>
          (~RelinkRequired /\ target = target0)

\* C9's case: nothing was compiled and the target exists, and the linker
\* runs because an object is newer than the target.
C9_Witness ==
    /\ pc = "linking"
    /\ compiled = {}
    /\ target # Missing
    /\ \E o \in Objects : objs[o] # Missing /\ objs[o] > target

\* C10: when the build kind is static the compiler is never run as a linker,
\* no command carries -shared or -fPIC, and the target is written only by
\* the archiver, run over the objects of all sources.
C10_StaticUsesArchiverOnly ==
    build_type = "static" =>
        /\ Spawned("link") = {}
        /\ \A c \in cmds : "-shared" \notin c.flags /\ "-fPIC" \notin c.flags
        /\ \A c \in Spawned("archive") : c.tool = "ar" /\ c.inputs = Objects
        /\ target # target0 => Spawned("archive") # {}

\* C10's case: a static build compiled both sources and the archiver wrote
\* the target.
C10_Witness ==
    /\ build_type = "static"
    /\ compiled = Sources
    /\ ArCmd \in cmds
    /\ pc = "idle" /\ result = "ok" /\ target # Missing

(***************************************************************************)
(* Claims about the processes of a run (SpecProc).                         *)
(***************************************************************************)
\* Spawned by the run and not yet reaped by the thread that spawned it.
Unreaped == {p \in Procs : proc[p] \in {"running", "exit0", "exit1"}}

ProgramExited == prog \in {"exit0", "exit1", "abort"}

\* C2: if an interrupt is delivered at any point of a build, then once the
\* program has exited no child process spawned by the build is alive.
C2_NoChildOutlivesInterrupt ==
    (hpc # "idle" /\ ProgramExited) => \A p \in Procs : proc[p] # "running"

\* C3: a process identifier is in the registry if and only if its process
\* has been spawned and has not yet been reaped.
C3_RegistryIffUnreaped == children = Unreaped

(***************************************************************************)
(* Claims about make (SpecMake).                                           *)
(***************************************************************************)
\* C4: after a declared language has ended in failure, every later declared
\* language is still processed: when make is done no language after a
\* failed one is left pending.
C4_LaterLanguagesStillProcessed ==
    mpc = "done" =>
        \A i \in 1..Len(languages) :
            outcome[i] = "failed" =>
                \A j \in (i + 1)..Len(languages) : outcome[j] # "pending"

\* The declared languages the match of make has no arm for.
Unrecognised == {i \in 1..Len(languages) : languages[i] \notin Known}

Processed(i) == outcome[i] # "pending"

\* C11: a declared language that is not recognised spawns no process, is
\* reported as skipped and never as failed, and does not stop the remaining
\* languages: the language after it is processed, and a later language is
\* left unprocessed only behind a native step that returned its error.
C11_UnrecognisedIsSkipped ==
    \A i \in Unrecognised :
        Processed(i) =>
            /\ outcome[i] = "skipped"
            /\ i \notin spawns
            /\ (mpc = "done" /\ i < Len(languages)) => Processed(i + 1)
            /\ mpc = "done" =>
                  \A j \in (i + 1)..Len(languages) :
                      ~Processed(j) =>
                          \E k \in (i + 1)..(j - 1) :
                              languages[k] \in Native /\ outcome[k] = "failed"

\* C11's case: an unrecognised language was skipped, the languages after it
\* were built, one of them failing, and make returned.
C11_Witness ==
    /\ mpc = "done" /\ make_result = "Ok"
    /\ Len(languages) = 3
    /\ languages[1] \notin Known /\ outcome[1] = "skipped"
    /\ languages[2] \in External /\ outcome[2] = "failed" /\ 2 \in spawns
    /\ languages[3] = "python" /\ outcome[3] = "succeeded"

\* C12: make returns success whenever declared languages failed, by a
\* toolchain command exiting non-zero or by a compile, link or archive error
\* of the native step: once the loop over the languages is entered, only a
\* failed dependency query makes make return an error.
C12_MakeSucceedsDespiteFailures ==
    (mpc = "done" /\ make_error.at # "deps" /\ make_error.what # "scan_err") =>
        make_result = "Ok"

(***************************************************************************)
(* Further claims about the processes of a run (SpecProc).                 *)
(***************************************************************************)
CompileProcs == {CompileProc(src) : src \in Sources}

\* Spawned and not yet waited for to the end by its thread.
Live(p) == proc[p] \in {"running", "exit0", "exit1"}

\* C14: a link or archive process is spawned only after every compile task
\* of the run has finished: while a compile process of the run is running,
\* or not yet waited for, no link or archive process has been spawned.
C14_LinkAfterAllCompiles ==
    (\E c \in CompileProcs : Live(c)) =>
        (proc[LinkProc] = "none" /\ proc[ArProc] = "none")

\* C14's case: the linker runs, and both sources were compiled in the run.
C14_Witness ==
    /\ proc[LinkProc] = "running"
    /\ \A c \in CompileProcs : proc[c] = "reaped"

\* The threads that can hold the registry's lock, and whether each is
\* blocked waiting for a process to exit.
WaitsForProcess(t) ==
    CASE t \in Workers -> wpc[t] = "wait"
      [] t = "main" -> pc \in {"graph_wait", "archiving", "linking"}
      [] t = "handler" -> hpc = "kill_wait"

\* The thread is at its single insert or its single remove.
AtInsertOrRemove(t) ==
    CASE t \in Workers -> wpc[t] \in {"locked", "locked2"}
      [] t = "main" -> pc \in {"link_locked", "link_locked2"}
      [] t = "handler" -> FALSE

\* C16: no thread (compile worker, link step or interrupt handler) waits
\* for a process to exit while it holds the registry lock; a worker and the
\* link step hold the lock only for the single insert or the single remove.
C16_LockNotHeldAcrossWait ==
    \A t \in Workers \cup {"main", "handler"} :
        lock = t =>
            /\ ~WaitsForProcess(t)
            /\ t # "handler" => AtInsertOrRemove(t)

\* The thread that spawned p has seen it exit and has reported its result:
\* the worker's task has returned, the link step has returned.
ResultReported(p) ==
    /\ proc[p] = "reaped"
    /\ IF p = LinkProc THEN pc = "done"
                       ELSE \A w \in Workers : wtask[w] # p.file

\* C17: once the spawning thread has seen a tracked child exit, with zero
\* or non-zero status, and has reported its result, the child's identifier
\* is out of the registry; the registry is empty whenever the pipeline has
\* returned, with success or with a compile or link error.
C17_RemovedBeforeResult ==
    /\ \A p \in Tracked : ResultReported(p) => p \notin children
    /\ (pc = "done" /\ result \in {"ok", "compile_err", "link_err"}) =>
          children = {}

\* C18: once a compile task has reported a non-zero exit, no task is started
\* and no compile process is spawned for a stale source whose task had not
\* started; the compile processes already running are waited for and not
\* killed by the run; and the compile operation reports failure.
C18_FailFast ==
    /\ [][failed => pending' = pending]_vars
    /\ [](failed => \A i \in pending : proc[CompileProc(sources[i])] = "none")
    /\ [](hpc = "idle" => \A k \in KillProcs : proc[k] = "none")
    /\ []((failed /\ pc = "done") =>
            /\ result = "compile_err"
            /\ \A c \in CompileProcs : proc[c] \in {"none", "reaped"})

\* C18's case: the first compile failed before the other source was
\* started; that source was never compiled and the run returned the error.
C18_Witness ==
    /\ failed /\ pc = "done" /\ result = "compile_err"
    /\ to_compile = Sources
    /\ pending # {}
    /\ hpc = "idle"

\* The handler has killed every identifier of the registry as it was when
\* it took the lock (the registry cannot change while it holds the lock).
KilledAllRegistered ==
    \A p \in children : proc[KillProc(p)] = "reaped" /\ proc[p] # "running"

\* C19, as stated: after an interrupt is delivered the handler acquires the
\* lock, kills every identifier in the registry at that moment, and the
\* program exits with a non-zero status: a program that has ended after an
\* interrupt was ended by the handler, in that way.
C19_InterruptEndsInHandlerExit ==
    (hpc # "idle" /\ ProgramExited) =>
        (hpc = "exited" /\ prog = "exit1" /\ KilledAllRegistered)

\* C19, amended: after an interrupt is delivered the program ends; unless
\* the main thread has ended it first, the handler has acquired the lock,
\* under every interleaving with the workers' inserts and removes, has
\* killed every identifier in the registry at that moment, and has exited
\* with a non-zero status.
C19_HandlerKillsAndExits ==
    /\ (hpc # "idle") ~> ProgramExited
    /\ [](hpc \in {"kill", "kill_wait", "exited"} => lock = "handler")
    /\ [](hpc = "exited" => (prog = "exit1" /\ KilledAllRegistered))
    /\ []((hpc # "idle" /\ ProgramExited /\ hpc # "exited") =>
            (pc = "done" \/ prog = "abort"))

\* C19's case: the handler took the lock with both compilers registered
\* and running, killed both and exited.
C19_Witness ==
    /\ hpc = "exited" /\ prog = "exit1"
    /\ children = CompileProcs
    /\ \A c \in CompileProcs : proc[c] = "exit1" /\ proc[KillProc(c)] = "reaped"

(***************************************************************************)
(* Further claims about the runs of the native pipeline (SpecBuild).       *)
(***************************************************************************)
\* C15: if a compile task exits with a non-zero status, the run spawns no
\* link or archive process, returns the error of the compilation, and the
\* target is as it was when the run began.
C15_CompileFailureStopsBeforeLink ==
    failed =>
        /\ Spawned("link") = {} /\ Spawned("archive") = {}
        /\ target = target0
        /\ pc \in {"compile", "idle"}
        /\ pc = "idle" => result = "compile_err"

\* C15's case: a target exists from an earlier run; in this run one source
\* compiled and the other failed, and the run has returned.
C15_Witness ==
    /\ failed /\ pc = "idle" /\ result = "compile_err"
    /\ target0 # Missing /\ target = target0
    /\ compiled = Sources

(***************************************************************************)
(* Claims about the runs over sources of the same name (SpecSameName).     *)
(***************************************************************************)
\* The sources of the run the staleness check judged not stale.
NotStale == {sources[i] : i \in 1..Len(sources)} \ to_compile

\* C20: a run spawns compile processes only for the sources the staleness
\* check judged stale, and no step of the run rewrites or removes the
\* object file of a source judged not stale.
C20_OnlyStaleSourcesRecompiled ==
    [][PastStaleness =>
          /\ \A c \in cmds' \ cmds : c.mode = "compile" => c.file \in to_compile
          /\ \A src \in NotStale : objs'[obj_path(src)] = objs[obj_path(src)]]_vars

(***************************************************************************)
(* Claims about the runs under overlapping patterns (SpecPatterns).        *)
(***************************************************************************)
\* No element occurs twice in the sequence.
NoRepeat(q) == \A i, j \in 1..Len(q) : q[i] = q[j] => i = j

\* C21: the resolved source list of a run holds each file once, also when
\* two patterns, or a pattern listed twice, match the same file; so no two
\* compile tasks of the run are for the same source file.
C21_EachSourceOnce ==
    pc # "idle" =>
        /\ NoRepeat(sources)
        /\ \A i, j \in pending : sources[i] = sources[j] => i = j

\* The graph of the run has been built.
PastGraph == pc \in {"stale", "compile", "link", "linking", "archiving"}

\* C22: while the graph of a run is built the dependency query is run at
\* most once for each file path, whether the file is reached as a source
\* or as a header.
C22_EachFileQueriedOnce == PastGraph => NoRepeat(Queries)

(***************************************************************************)
(* Further claims about make (SpecMake).                                   *)
(***************************************************************************)
\* C23: the native pipeline can run more than once in one process: when c
\* and c++ are both declared, or when a fetched dependency was built
\* natively before the project, the later invocation gets past the
\* initialisation of the worker pool as the first one did: no native step
\* ends in the error of that initialisation.
C23_NativePipelineRunsAgain ==
    \A i \in 1..Len(languages) :
        (languages[i] \in Native /\ Processed(i)) =>
            ~(li = i /\ make_error.what = "pool_err")

(***************************************************************************)
(* Claims about the object paths (SpecSameName).                           *)
(***************************************************************************)
\* C24: distinct source files of a run are assigned distinct object-file
\* paths, so no two compile tasks write the same object file and the link
\* step lists one object for each source.
C24_DistinctObjectPaths ==
    pc # "idle" =>
        /\ \A i, j \in 1..Len(sources) :
              sources[i] # sources[j] => obj_path(sources[i]) # obj_path(sources[j])
        /\ \A c \in Spawned("link") \cup Spawned("archive") :
              Cardinality(c.inputs) = Cardinality({sources[i] : i \in 1..Len(sources)})

(***************************************************************************)
(* Claims about make with the native pipeline inside (SpecMakeNative).     *)
(***************************************************************************)
\* C13: if the dependency query for a source or a header exits non-zero,
\* the run returns its error with no compile, link or archive process
\* spawned, make returns that error, and no later declared language is
\* processed.
C13_ScanFailureAborts ==
    result = "scan_err" =>
        /\ Spawned("compile") = {} /\ Spawned("link") = {} /\ Spawned("archive") = {}
        /\ objs = [o \in Objects |-> Missing] /\ target = Missing
        /\ mpc \in {"native", "done"}
        /\ mpc = "done" => (make_result = "Err" /\ make_error.what = "scan_err")
        /\ \A j \in (li + 1)..Len(languages) : ~Processed(j) /\ j \notin spawns

\* C13's case: the query for a header failed, after the one for its source
\* had succeeded; make has returned and a declared language is left.
C13_Witness ==
    /\ result = "scan_err"
    /\ ScanCmd("x.h") \in cmds
    /\ mpc = "done"
    /\ li < Len(languages)
    /\ languages[li + 1] \in External

=============================================================================
